---- MODULE Spec2Model ----
(***************************************************************************)
(* Model of the Trimly backend (FastAPI + SQLite): the interval merger of  *)
(* the editing engine, the keyword search, the two backends of the audio   *)
(* cutter, the version store driven by the HTTP handlers and their         *)
(* background tasks, the deletion of a project, and the enhancement and    *)
(* summary records.                                                        *)
(* The server runs one event loop (uvicorn.run(app)); no handler awaits    *)
(* anything that suspends, nor do the transcription and edit tasks, so     *)
(* each is one atomic step and a step is one commit. The enhancement and   *)
(* summary tasks commit, await, and commit again: two steps.               *)
(* The handlers are modelled as their bodies are written                   *)
(* (api_endpoints.py does not compile as it stands: line 246 puts a        *)
(* parameter without a default after one with a default).                  *)
(***************************************************************************)
EXTENDS Integers, Sequences, FiniteSets, TLC

(* ------------------------------ bounds --------------------------------- *)
\* largest time stamp of an interval handed to the merger, in half seconds
MaxTime == 4
\* longest list of intervals handed to the merger
MaxLen == 3

\* rows ever inserted into audio_versions (ids are never reused)
MaxVersionRows == 4
\* background tasks ever scheduled
MaxTasks == 3

\* largest time stamp of a deletion handed to the cutter and longest clip,
\* in tenths of a second; longest deletion list
MaxCutTime == 3
MaxCutLen == 3
\* samples per tenth of a second of the clips
SampleRate == 2

\* enhancement and summary requests ever accepted
MaxAiTasks == 2

\* words of the transcript and keywords of a keyword search
MaxWords == 3
MaxKeywords == 1

(* ------------------------------- state --------------------------------- *)
VARIABLES
    m_pc,        \* position of the merger driver: "collect", "merged", "again"
    m_input,     \* the list as handed to the merger
    m_segments,  \* the caller's list object (after the call: updated in place)
    m_merged,    \* result of the first call
    m_again      \* result of calling the merger on m_merged

VARIABLES
    audio_files,      \* ids of the rows of audio_files
    files,            \* the file system: path -> [data, complete]
    transcripts,      \* rows of transcripts, indexed by id
    versions,         \* rows of audio_versions
    next_version_id,  \* next autoincrement id of audio_versions
    tasks,            \* background tasks added by a handler and not yet run
    next_task_id,     \* number of the next background task
    usage_logs,       \* rows of usage_logs, in insertion order
    finished          \* how every background task that ran ended

VARIABLES
    c_pc,        \* position of the cutter driver: "idle", "collect", "done"
    c_duration,  \* duration of the clip in input_file, in tenths of a second
    c_segments,  \* segments_to_remove as handed to the cutter
    c_backend,   \* the backend that ran: "librosa" or "ffmpeg"
    c_fault,     \* the I/O failure the call met, "none" when it met none
    c_keep,      \* the keep list the backend derived
    c_report,    \* the dict the cut returned
    c_raised,    \* the exception the cut raised, "" when it returned
    c_output     \* the file at output_file: [state, samples]

VARIABLES
    ai_enhancements,    \* rows of ai_enhancements, indexed by id
    content_summaries,  \* rows of content_summaries, indexed by id
    ai_tasks,           \* enhancement and summary tasks added and not yet done
    next_ai_task_id     \* number of the next enhancement or summary task

VARIABLES
    k_pc,        \* position of the keyword search driver: "collect", "done"
    k_words,     \* transcript_data["words"]: rows [word, start, end]
    k_keywords,  \* the keywords list of the call
    k_found      \* the list search_keywords returned

mvars == <<m_pc, m_input, m_segments, m_merged, m_again>>

cvars == <<c_pc, c_duration, c_segments, c_backend, c_fault, c_keep, c_report,
           c_raised, c_output>>

svars == <<audio_files, files, transcripts, versions, next_version_id,
           tasks, next_task_id, usage_logs, finished>>

avars == <<ai_enhancements, content_summaries, ai_tasks, next_ai_task_id>>

kvars == <<k_pc, k_words, k_keywords, k_found>>

\* the state outside the merger, the version store and the cutter
xvars == <<avars, kvars>>

vars == <<mvars, svars, cvars, xvars>>

(* --------------------------- interval merger --------------------------- *)
\* reason strings built by process_edit_operations
Reasons == {"filler_word: um", "manual_delete: "}

\* one element of segments_to_remove: an Interval (start_time < end_time,
\* time stamps in half seconds) and its reason
Segment ==
    {seg \in [start_time : 0..MaxTime, end_time : 0..MaxTime, reason : Reasons] :
        seg.start_time < seg.end_time}

Max(a, b) == IF a >= b THEN a ELSE b
Min(a, b) == IF a <= b THEN a ELSE b

\* sorted(segments, key=start_time): Python's sort is stable, so the index i
\* goes after every index already placed whose start_time is <= its own
\* SortedIdx without the sort: the list is taken in the order given
UnsortedIdx(segs, n) == [i \in 1..n |-> i]

RECURSIVE SortedIdx(_, _)
SortedIdx(segs, n) ==
    IF n = 0 THEN <<>>
    ELSE LET prev == SortedIdx(segs, n - 1)
             le(j) == segs[j].start_time <= segs[n].start_time
             gt(j) == segs[j].start_time > segs[n].start_time
         IN SelectSeq(prev, le) \o <<n>> \o SelectSeq(prev, gt)

\* the for loop of _merge_overlapping_segments.  The list elements are dict
\* objects shared with the input list: heap[i] is the object at input index i,
\* merged holds indices, and the merge branch writes through the index.
\* Overlapping with a strict comparison: touching intervals are kept apart
OverlappingStrict(current, last) == current.start_time < last.end_time

\* the test `current["start_time"] <= last["end_time"]`
Overlapping(current, last) == current.start_time <= last.end_time

\* MergedEnd without the max: the later interval's end replaces the earlier one
MergedEndCurrent(last_end, current_end) == current_end

\* `max(last["end_time"], current["end_time"])`
MergedEnd(last_end, current_end) == Max(last_end, current_end)

RECURSIVE MergeLoop(_, _, _, _)
RECURSIVE MergeLoopNoElse(_, _, _, _)
\* MergeLoop without the else: current is appended on both branches
MergeLoopNoElse(order, k, heap, merged) ==
    IF k > Len(order) THEN [heap |-> heap, merged |-> merged]
    ELSE LET current == order[k]
             last == merged[Len(merged)]
         IN IF Overlapping(heap[current], heap[last])
            THEN MergeLoopNoElse(order, k + 1,
                     [heap EXCEPT ![last].end_time = MergedEnd(@, heap[current].end_time),
                                  ![last].reason = @ \o "; " \o heap[current].reason],
                     Append(merged, current))
            ELSE MergeLoopNoElse(order, k + 1, heap, Append(merged, current))

MergeLoop(order, k, heap, merged) ==
    IF k > Len(order) THEN [heap |-> heap, merged |-> merged]
    ELSE LET current == order[k]
             last == merged[Len(merged)]
         IN IF Overlapping(heap[current], heap[last])
            THEN MergeLoop(order, k + 1,
                     [heap EXCEPT ![last].end_time = MergedEnd(@, heap[current].end_time),
                                  ![last].reason = @ \o "; " \o heap[current].reason],
                     merged)
            ELSE MergeLoop(order, k + 1, heap, Append(merged, current))

MergeRun(segs) ==
    LET order == SortedIdx(segs, Len(segs))
    IN MergeLoop(order, 2, segs, <<order[1]>>)

\* the list returned by _merge_overlapping_segments
MergeOverlappingSegments(segs) ==
    IF segs = <<>> THEN <<>>
    ELSE LET r == MergeRun(segs)
         IN [i \in 1..Len(r.merged) |-> r.heap[r.merged[i]]]

\* the caller's list after the call (its dicts were updated in place)
SegmentsAfterMerge(segs) ==
    IF segs = <<>> THEN <<>> ELSE MergeRun(segs).heap

MergeInit ==
    /\ m_pc = "collect"
    /\ m_input = <<>>
    /\ m_segments = <<>>
    /\ m_merged = <<>>
    /\ m_again = <<>>

\* segments_to_remove.append({...}) in process_edit_operations
AppendSegment ==
    /\ m_pc = "collect"
    /\ Len(m_segments) < MaxLen
    /\ \E seg \in Segment :
          /\ m_segments' = Append(m_segments, seg)
          /\ m_input' = Append(m_input, seg)
    /\ UNCHANGED <<m_pc, m_merged, m_again, svars, cvars, xvars>>

MergeCall ==
    /\ m_pc = "collect"
    /\ m_merged' = MergeOverlappingSegments(m_segments)
    /\ m_segments' = SegmentsAfterMerge(m_segments)
    /\ m_pc' = "merged"
    /\ UNCHANGED <<m_input, m_again, svars, cvars, xvars>>

MergeAgain ==
    /\ m_pc = "merged"
    /\ m_again' = MergeOverlappingSegments(m_merged)
    /\ m_pc' = "again"
    /\ UNCHANGED <<m_input, m_segments, m_merged, svars, cvars, xvars>>


(* ----------------------------- version store --------------------------- *)
\* quotas["free"]["max_versions"]
MaxVersionsFree == 3
\* Column(Integer, default=1800): free_quota_seconds_remaining of the user
DefaultFreeQuota == 1800

\* the audio files uploaded to the user's one project (AudioFile.id)
Assets == {1, 2}

\* version names a client sends; None stands for "no version_name given"
None == "None"
ClientNames == {"v1", "v2"}

\* a NULL column
Null == -1

\* AudioFile.filename, AudioFile.file_path and AudioFile.duration_seconds
Filename(a) == "a" \o ToString(a) \o ".wav"
OriginalPath(a) == "uploads/" \o Filename(a)
OriginalDuration(a) == 2 + a

\* os.path.join(get_processed_path(user_id, project_id), f"{version_name}_{filename}")
OutputPath(a, name) == "processed/" \o name \o "_" \o Filename(a)

\* f"v{existing_versions + 1}"
DefaultName(count) == "v" \o ToString(count + 1)

\* the operation list of an edit request as JSON text, and the new_duration
\* values a cut may report
EditOps == "[delete_filler]"
NewDurations == {1, 2}

SysInit ==
    /\ audio_files = Assets
    /\ files = [p \in {OriginalPath(a) : a \in Assets} |->
                  [data |-> p, complete |-> TRUE]]
    /\ transcripts = <<>>
    /\ versions = {}
    /\ next_version_id = 1
    /\ tasks = {}
    /\ next_task_id = 1
    /\ usage_logs = <<>>
    /\ finished = {}

\* db.query(AudioVersion).filter(audio_file_id == a)
VersionsOf(a) == {v \in versions : v.audio_file_id = a}

\* ExistingVersion that finds no row: the name check never fires
ExistingVersionNone(a, name) == {}

\* db.query(AudioVersion).filter(audio_file_id == a, version_name == name).first()
ExistingVersion(a, name) == {v \in VersionsOf(a) : v.version_name = name}

\* db.query(Transcript).filter(audio_file_id == a, status in wanted)
TranscriptsOf(a, wanted) ==
    {i \in 1..Len(transcripts) :
        transcripts[i].audio_file_id = a /\ transcripts[i].status \in wanted}

EditTasks == {t \in tasks : t.kind = "edit"}

\* ids left for a handler that inserts n rows now, keeping one for the row
\* every scheduled edit task inserts later
RoomForRows(n) == next_version_id + n - 1 + Cardinality(EditTasks) <= MaxVersionRows

\* calculate_quota_usage(user_role): the limits of the roles of the model
Unlimited == -1
FreeAiEnhanceMinutes == 1
FreeAiSummaryCount == 5
Quotas(role) ==
    IF role = "creator"
    THEN [monthly_minutes |-> Unlimited, ai_enhance_minutes |-> Unlimited,
          ai_summary_count |-> Unlimited]
    ELSE [monthly_minutes |-> 30, ai_enhance_minutes |-> FreeAiEnhanceMinutes,
          ai_summary_count |-> FreeAiSummaryCount]

\* the rows of users a request may come with (current_user): a free user as
\* registered, a free user with every budget used up, and a creator with
\* the same counters. No code of the backend writes the three counters
\* after registration; the accounting that does is outside it.
Users ==
    {[role |-> "free", free_quota_seconds_remaining |-> DefaultFreeQuota,
      ai_enhance_minutes_used |-> 0, ai_summary_count_used |-> 0],
     [role |-> "free", free_quota_seconds_remaining |-> 0,
      ai_enhance_minutes_used |-> FreeAiEnhanceMinutes,
      ai_summary_count_used |-> FreeAiSummaryCount],
     [role |-> "creator", free_quota_seconds_remaining |-> 0,
      ai_enhance_minutes_used |-> FreeAiEnhanceMinutes,
      ai_summary_count_used |-> FreeAiSummaryCount]}

\* check_quota_limit(user, action, amount)
CheckQuotaLimit(user, action, amount) ==
    LET quotas == Quotas(user.role)
    IN IF action = "transcribe"
       THEN IF quotas.monthly_minutes = Unlimited THEN TRUE
            ELSE user.free_quota_seconds_remaining >= amount * 60
       ELSE IF action = "ai_enhance"
       THEN IF quotas.ai_enhance_minutes = Unlimited THEN TRUE
            ELSE user.ai_enhance_minutes_used < quotas.ai_enhance_minutes
       ELSE IF action = "ai_summary"
       THEN IF quotas.ai_summary_count = Unlimited THEN TRUE
            ELSE user.ai_summary_count_used < quotas.ai_summary_count
       ELSE FALSE

\* os.path.getsize: an original has a size of its own, every complete output
\* of a cut the same size, a partly written file less
GetSize(content) ==
    IF ~content.complete THEN 1
    ELSE IF \E a \in Assets : content.data = OriginalPath(a)
    THEN 10 + (CHOOSE a \in Assets : content.data = OriginalPath(a))
    ELSE 5

\* the file system after writing a file / after os.remove
WriteFile(fs, path, content) == [q \in DOMAIN fs \cup {path} |->
                                   IF q = path THEN content ELSE fs[q]]
RemoveFiles(fs, paths) == [q \in DOMAIN fs \ paths |-> fs[q]]

NewTask(kind, a, transcript_id, name, row) ==
    [id |-> next_task_id, kind |-> kind, audio_file_id |-> a,
     transcript_id |-> transcript_id, version_name |-> name, row |-> row]

\* EditInputPath that takes the file of a Version of the asset when it has one
EditInputPathOfVersion(a) ==
    IF \E v \in VersionsOf(a) : v.file_path # ""
    THEN (CHOOSE v \in VersionsOf(a) : v.file_path # "").file_path
    ELSE OriginalPath(a)

\* audio_file.file_path, the input process_audio_editing hands to
\* process_edit_operations
EditInputPath(a) == OriginalPath(a)

\* input: the file an edit task handed to the editing engine, "" when the
\* task did not get that far or is no edit
Finish(t, pipeline, result) ==
    finished' = finished \cup
        {[task |-> t.id, kind |-> t.kind, pipeline |-> pipeline, result |-> result,
          transcript_id |-> t.transcript_id, row |-> t.row,
          input |-> IF t.kind = "edit" /\ pipeline # "none"
                    THEN EditInputPath(t.audio_file_id) ELSE ""]}

\* create_transcript without its look for a processing or completed row
CreateTranscriptResponseUnchecked(a, user) ==
    IF a \notin audio_files THEN "404"
    ELSE IF ~CheckQuotaLimit(user, "transcribe", 1) THEN "403"
    ELSE "200"

\* what create_transcript answers: a status code, or "existing" for the
\* completed transcript it returns
CreateTranscriptResponse(a, user) ==
    IF a \notin audio_files THEN "404"
    ELSE IF ~CheckQuotaLimit(user, "transcribe", 1) THEN "403"
    ELSE IF TranscriptsOf(a, {"processing", "completed"}) = {} THEN "200"
    ELSE LET existing == CHOOSE i \in TranscriptsOf(a, {"processing", "completed"}) :
                            \A k \in TranscriptsOf(a, {"processing", "completed"}) : i <= k
         IN IF transcripts[existing].status = "processing" THEN "409" ELSE "existing"

\* POST /audio/{audio_id}/transcribe
CreateTranscript(a, user) ==
    /\ UNCHANGED <<mvars, cvars, xvars, audio_files, files, versions, next_version_id,
                   usage_logs, finished>>
    /\ IF CreateTranscriptResponse(a, user) # "200"
       THEN UNCHANGED <<transcripts, tasks, next_task_id>>
       ELSE /\ next_task_id <= MaxTasks
            /\ transcripts' = Append(transcripts,
                   [audio_file_id |-> a, status |-> "processing",
                    content |-> "", error_message |-> ""])
            /\ tasks' = tasks \cup
                   {NewTask("transcribe", a, Len(transcripts) + 1, "", Null)}
            /\ next_task_id' = next_task_id + 1

\* BackgroundTaskManager.process_transcription; ok: the transcribe call returns
ProcessTranscription(t, ok) ==
    /\ t \in tasks /\ t.kind = "transcribe"
    /\ tasks' = tasks \ {t}
    /\ UNCHANGED <<mvars, cvars, xvars, audio_files, files, versions, next_version_id,
                   next_task_id>>
    /\ IF t.transcript_id \notin 1..Len(transcripts)
       THEN UNCHANGED <<transcripts, usage_logs>> /\ Finish(t, "none", "returned")
       ELSE IF ok /\ OriginalPath(t.audio_file_id) \in DOMAIN files
       THEN \* transcribe_audio raises when audio_file_path does not exist
            /\ transcripts' = [transcripts EXCEPT ![t.transcript_id].status = "completed",
                                                  ![t.transcript_id].content = "words"]
            /\ usage_logs' =
                 IF transcripts[t.transcript_id].audio_file_id \in audio_files
                 THEN Append(usage_logs,
                        [action |-> "transcribe", resource_type |-> "transcript",
                         resource_id |-> t.transcript_id, cost_credits |-> 0,
                         task |-> t.id])
                 ELSE usage_logs
            /\ Finish(t, "ok", "returned")
       ELSE /\ transcripts' = [transcripts EXCEPT ![t.transcript_id].status = "error",
                                                  ![t.transcript_id].error_message = "str(e)"]
            /\ UNCHANGED usage_logs
            /\ Finish(t, "failed", "returned")

\* the version name of an edit request: the one given, else f"v{count + 1}"
EditName(a, version_name) ==
    IF version_name = None
    THEN DefaultName(Cardinality(VersionsOf(a)))
    ELSE version_name

\* the status code edit_audio answers with
EditAudioResponse(a, version_name) ==
    IF a \notin audio_files THEN "404"
    ELSE IF TranscriptsOf(a, {"completed"}) = {} THEN "400"
    ELSE IF ExistingVersion(a, EditName(a, version_name)) # {} THEN "409"
    ELSE "200"

\* the EditOperation rows a client may send (schemas.EditOperation: a type
\* and two floats, nothing else is required of them), times in seconds
EditOperations ==
    [type : {"delete_text", "delete_filler", "speed_up"},
     start_time : 0..2, end_time : 0..2]

\* the types process_edit_operations has a branch for
SupportedTypes == {"delete_filler", "delete_keyword", "delete_text"}

\* edit_audio on an EditRequest with one operation: the handler reads
\* edit_request.version_name and hands the operations on to the task as
\* they came
EditRequestResponse(a, operation, version_name) ==
    EditAudioResponse(a, version_name)

\* POST /audio/{audio_id}/edit
EditAudio(a, version_name) ==
    /\ UNCHANGED <<mvars, cvars, xvars, audio_files, files, transcripts, usage_logs, finished>>
    /\ IF EditAudioResponse(a, version_name) # "200"
       THEN UNCHANGED <<versions, next_version_id, tasks, next_task_id>>
       ELSE LET name == EditName(a, version_name)
            IN /\ RoomForRows(2)
               /\ next_task_id <= MaxTasks
               /\ versions' = versions \cup
                    {[id |-> next_version_id, audio_file_id |-> a,
                      version_name |-> name, file_path |-> "",
                      edit_operations |-> "", edit_summary |-> "Processing...",
                      duration_seconds |-> Null, file_size_bytes |-> Null,
                      wrote |-> ""]}
               /\ next_version_id' = next_version_id + 1
               /\ tasks' = tasks \cup {NewTask("edit", a, Null, name, next_version_id)}
               /\ next_task_id' = next_task_id + 1

\* the AudioVersion row the edit task builds after a successful cut
EditedVersion(t, output_path, new_duration) ==
    [id |-> next_version_id, audio_file_id |-> t.audio_file_id,
     version_name |-> t.version_name, file_path |-> output_path,
     edit_operations |-> EditOps, edit_summary |-> "remove fillers",
     duration_seconds |-> new_duration,
     file_size_bytes |-> GetSize([data |-> "edit" \o ToString(t.id), complete |-> TRUE]),
     wrote |-> "edit" \o ToString(t.id)]

\* BackgroundTaskManager.process_audio_editing; outcome: how
\* process_edit_operations ends ("ok", "fail_early": raises before the output
\* is opened, "fail_write": raises with the output partly written)
ProcessAudioEditing(t, outcome, new_duration) ==
    /\ t \in tasks /\ t.kind = "edit"
    /\ tasks' = tasks \ {t}
    /\ UNCHANGED <<mvars, cvars, xvars, audio_files, transcripts, next_task_id>>
    /\ LET output_path == OutputPath(t.audio_file_id, t.version_name)
       IN IF t.audio_file_id \notin audio_files
          THEN /\ UNCHANGED <<files, versions, next_version_id, usage_logs>>
               /\ Finish(t, "none", "returned")
          ELSE IF TranscriptsOf(t.audio_file_id, {"completed"}) = {}
          THEN /\ UNCHANGED <<files, versions, next_version_id, usage_logs>>
               /\ Finish(t, "none", "raised")
          ELSE IF EditInputPath(t.audio_file_id) \notin DOMAIN files
          THEN \* librosa.load / ffprobe fail on a missing input
               /\ UNCHANGED <<files, versions, next_version_id, usage_logs>>
               /\ Finish(t, "failed", "raised")
          ELSE IF outcome = "ok"
          THEN /\ files' = WriteFile(files, output_path,
                              [data |-> "edit" \o ToString(t.id), complete |-> TRUE])
               /\ versions' = versions \cup {EditedVersion(t, output_path, new_duration)}
               /\ next_version_id' = next_version_id + 1
               /\ usage_logs' = Append(usage_logs,
                      [action |-> "edit", resource_type |-> "audio_version",
                       resource_id |-> Null, cost_credits |-> 0, task |-> t.id])
               /\ Finish(t, "ok", "returned")
          ELSE /\ files' = IF outcome = "fail_write"
                           THEN WriteFile(files, output_path,
                                  [data |-> "edit" \o ToString(t.id), complete |-> FALSE])
                           ELSE files
               /\ UNCHANGED <<versions, next_version_id, usage_logs>>
               /\ Finish(t, "failed", "raised")

\* how create_version_from_original ends: the error code of the
\* TrimlyException it raises, or "created"
CreateVersionResponse(a, version_name) ==
    IF a \notin audio_files THEN "AUDIO_FILE_NOT_FOUND"
    ELSE IF ExistingVersion(a, version_name) # {} THEN "VERSION_EXISTS"
    ELSE IF OriginalPath(a) \notin DOMAIN files THEN "FileNotFoundError"
    ELSE "created"

\* POST /projects/{project_id}/audio/{audio_id}/versions
CreateVersionFromOriginal(a, version_name) ==
    /\ UNCHANGED <<mvars, cvars, xvars, audio_files, transcripts, tasks, next_task_id,
                   usage_logs, finished>>
    /\ IF CreateVersionResponse(a, version_name) # "created"
       THEN UNCHANGED <<files, versions, next_version_id>>
       ELSE LET output_path == OutputPath(a, version_name)
                copied == files[OriginalPath(a)]
            IN /\ RoomForRows(1)
               /\ files' = WriteFile(files, output_path, copied)
               /\ versions' = versions \cup
                    {[id |-> next_version_id, audio_file_id |-> a,
                      version_name |-> version_name, file_path |-> output_path,
                      edit_operations |-> "[]", edit_summary |-> "Copy of original file",
                      duration_seconds |-> OriginalDuration(a),
                      file_size_bytes |-> GetSize(copied), wrote |-> copied.data]}
               /\ next_version_id' = next_version_id + 1

\* db.query(AudioVersion).filter(AudioVersion.id == version_id).first()
VersionById(version_id) == {v \in versions : v.id = version_id}

\* how create_branch_from_version ends: the error code of the TrimlyException
\* it raises, the exception shutil.copy2 raises when the source row has no
\* file, or "created"
BranchResponse(source_version_id, new_version_name) ==
    IF VersionById(source_version_id) = {} THEN "VERSION_NOT_FOUND"
    ELSE LET source_version == CHOOSE v \in VersionById(source_version_id) : TRUE
         IN IF ExistingVersion(source_version.audio_file_id, new_version_name) # {}
            THEN "VERSION_EXISTS"
            ELSE IF source_version.file_path \notin DOMAIN files
            THEN "FileNotFoundError"
            ELSE "created"

\* POST /projects/versions/{version_id}/branch
CreateBranchFromVersion(source_version_id, new_version_name) ==
    /\ UNCHANGED <<mvars, cvars, xvars, audio_files, transcripts, tasks, next_task_id,
                   usage_logs, finished>>
    /\ IF BranchResponse(source_version_id, new_version_name) # "created"
       THEN UNCHANGED <<files, versions, next_version_id>>
       ELSE LET source_version == CHOOSE v \in VersionById(source_version_id) : TRUE
                output_path == OutputPath(source_version.audio_file_id, new_version_name)
            IN /\ RoomForRows(1)
               /\ files' = WriteFile(files, output_path, files[source_version.file_path])
               /\ versions' = versions \cup
                    {[id |-> next_version_id,
                      audio_file_id |-> source_version.audio_file_id,
                      version_name |-> new_version_name, file_path |-> output_path,
                      edit_operations |-> source_version.edit_operations,
                      edit_summary |-> "Branch from " \o source_version.version_name,
                      duration_seconds |-> source_version.duration_seconds,
                      file_size_bytes |-> GetSize(files[source_version.file_path]),
                      wrote |-> files[source_version.file_path].data]}
               /\ next_version_id' = next_version_id + 1

\* `x or 0` of a nullable column
OrZero(x) == IF x = Null THEN 0 ELSE x

\* len(safe_json_loads(edit_operations, [])): text that is no JSON gives []
OperationsCount(edit_operations) ==
    IF edit_operations = EditOps THEN 1 ELSE 0

\* DurationDiff with the versions exchanged
DurationDiffSwapped(version1, version2) ==
    OrZero(version1.duration_seconds) - OrZero(version2.duration_seconds)

\* "duration_diff" of compare_versions
DurationDiff(version1, version2) ==
    OrZero(version2.duration_seconds) - OrZero(version1.duration_seconds)

\* GET /projects/versions/{version1_id}/compare/{version2_id}: the error
\* code of the TrimlyException, or the "differences" of the answer.  The
\* handler writes nothing.
CompareVersions(version1_id, version2_id) ==
    LET NoDifferences(error) ==
            [error |-> error, duration_diff |-> Null, size_diff |-> Null,
             operations_diff |-> Null]
    IN IF VersionById(version1_id) = {} \/ VersionById(version2_id) = {}
       THEN NoDifferences("VERSION_NOT_FOUND")
       ELSE LET version1 == CHOOSE v \in VersionById(version1_id) : TRUE
                version2 == CHOOSE v \in VersionById(version2_id) : TRUE
            IN IF version1.audio_file_id # version2.audio_file_id
               THEN NoDifferences("INVALID_COMPARISON")
               ELSE [error |-> "",
                     duration_diff |-> DurationDiff(version1, version2),
                     size_diff |-> OrZero(version2.file_size_bytes)
                                     - OrZero(version1.file_size_bytes),
                     operations_diff |-> OperationsCount(version2.edit_operations)
                                           - OperationsCount(version1.edit_operations)]

\* what delete_version returns: the error code of the TrimlyException, or
\* the name of the deleted version and the size of its file
DeleteVersionResponse(version_id) ==
    IF VersionById(version_id) = {}
    THEN [error |-> "VERSION_NOT_FOUND", deleted_version |-> "",
          freed_space_bytes |-> Null]
    ELSE LET version == CHOOSE v \in VersionById(version_id) : TRUE
         IN [error |-> "", deleted_version |-> version.version_name,
             freed_space_bytes |->
                 IF version.file_path \in DOMAIN files
                 THEN GetSize(files[version.file_path])
                 ELSE 0]

\* DELETE /projects/versions/{version_id}
DeleteVersion(version_id) ==
    /\ UNCHANGED <<mvars, cvars, xvars, audio_files, transcripts, next_version_id, tasks,
                   next_task_id, usage_logs, finished>>
    /\ IF DeleteVersionResponse(version_id).error # ""
       THEN UNCHANGED <<files, versions>>
       ELSE /\ files' = RemoveFiles(files, {v.file_path : v \in VersionById(version_id)})
            /\ versions' = versions \ VersionById(version_id)

\* versions[max_versions:] of the rows of one audio file ordered by
\* created_at descending (rows are created in id order)
VersionsToDelete(a) ==
    {v \in VersionsOf(a) :
        Cardinality({w \in VersionsOf(a) : w.id > v.id}) >= MaxVersionsFree}

\* POST /projects/cleanup/old-versions
CleanupOldVersions ==
    /\ UNCHANGED <<mvars, cvars, xvars, audio_files, transcripts, next_version_id, tasks,
                   next_task_id, usage_logs, finished>>
    /\ LET doomed == UNION {VersionsToDelete(a) : a \in audio_files}
       IN /\ files' = RemoveFiles(files, {v.file_path : v \in doomed})
          /\ versions' = versions \ doomed

\* how delete_project ends. The project of the model is there as long as it
\* has audio files. db.delete(audio_file) leaves the transcripts of the audio
\* file to the ORM, whose relationship has no delete cascade: the flush of
\* db.commit() sets their audio_file_id to NULL, and the column is NOT NULL.
DeleteProjectResponse ==
    IF audio_files = {} THEN "404"
    ELSE IF \E i \in 1..Len(transcripts) : transcripts[i].audio_file_id \in audio_files
    THEN "IntegrityError"
    ELSE "200"

\* DELETE /projects/{project_id}: the files go in the loop and with the two
\* directories, before the commit; the commit that fails is rolled back
DeleteProject ==
    /\ DeleteProjectResponse # "404"
    /\ files' = RemoveFiles(files, DOMAIN files)
    /\ IF DeleteProjectResponse = "200"
       THEN audio_files' = {} /\ versions' = {}
       ELSE UNCHANGED <<audio_files, versions>>
    /\ UNCHANGED <<mvars, cvars, xvars, transcripts, next_version_id, tasks,
                   next_task_id, usage_logs, finished>>

(* ----------------------- enhancements and summaries -------------------- *)
\* a sequence of rows with the status of one row set
WithStatus(rows, id, status) == [rows EXCEPT ![id].status = status]

AiInit ==
    /\ ai_enhancements = <<>>
    /\ content_summaries = <<>>
    /\ ai_tasks = {}
    /\ next_ai_task_id = 1

\* background_tasks.add_task(task_manager.process_ai_enhancement, audio_id, ...)
\* and add_task(task_manager.process_content_summary, transcript_id, ...):
\* the task is handed the id of the audio file or transcript, not of the
\* record the endpoint has just inserted; row is the record the task itself
\* inserts once it has started
NewAiTask(kind, target) ==
    [id |-> next_ai_task_id, kind |-> kind, target |-> target, row |-> Null]

\* the status code enhance_audio answers with
EnhanceAudioResponse(a, user) ==
    IF a \notin audio_files THEN "404"
    ELSE IF ~CheckQuotaLimit(user, "ai_enhance", 1) THEN "403"
    ELSE "200"

\* POST /audio/{audio_id}/enhance
EnhanceAudio(a, user) ==
    /\ UNCHANGED <<mvars, cvars, svars, kvars, content_summaries>>
    /\ IF EnhanceAudioResponse(a, user) # "200"
       THEN UNCHANGED <<ai_enhancements, ai_tasks, next_ai_task_id>>
       ELSE /\ next_ai_task_id <= MaxAiTasks
            /\ ai_enhancements' = Append(ai_enhancements,
                   [audio_file_id |-> a, status |-> "processing",
                    created_by |-> "endpoint"])
            /\ ai_tasks' = ai_tasks \cup {NewAiTask("enhance", a)}
            /\ next_ai_task_id' = next_ai_task_id + 1

\* process_ai_enhancement up to its await: the task inserts a record of its own
StartAiEnhancement(t) ==
    /\ t \in ai_tasks /\ t.kind = "enhance" /\ t.row = Null
    /\ UNCHANGED <<mvars, cvars, svars, kvars, content_summaries, next_ai_task_id>>
    /\ IF t.target \notin audio_files
       THEN /\ ai_tasks' = ai_tasks \ {t}
            /\ UNCHANGED ai_enhancements
       ELSE /\ ai_enhancements' = Append(ai_enhancements,
                   [audio_file_id |-> t.target, status |-> "processing",
                    created_by |-> "task"])
            /\ ai_tasks' = (ai_tasks \ {t}) \cup
                   {[t EXCEPT !.row = Len(ai_enhancements) + 1]}

\* process_ai_enhancement after _simulate_ai_enhancement has returned (ok) or
\* raised
FinishAiEnhancement(t, ok) ==
    /\ t \in ai_tasks /\ t.kind = "enhance" /\ t.row # Null
    /\ ai_tasks' = ai_tasks \ {t}
    /\ ai_enhancements' =
           WithStatus(ai_enhancements, t.row, IF ok THEN "completed" ELSE "error")
    /\ usage_logs' =
           IF ok
           THEN Append(usage_logs,
                  [action |-> "enhance", resource_type |-> "ai_enhancement",
                   resource_id |-> t.row, cost_credits |-> 1, task |-> t.id])
           ELSE usage_logs
    /\ UNCHANGED <<mvars, cvars, kvars, audio_files, files, transcripts, versions,
                   next_version_id, tasks, next_task_id, finished,
                   content_summaries, next_ai_task_id>>

\* the status code create_content_summary answers with
CreateContentSummaryResponse(transcript_id, user) ==
    IF transcript_id \notin 1..Len(transcripts) THEN "404"
    ELSE IF transcripts[transcript_id].status # "completed" THEN "400"
    ELSE IF ~CheckQuotaLimit(user, "ai_summary", 1) THEN "403"
    ELSE "200"

\* POST /transcripts/{transcript_id}/summarize
CreateContentSummary(transcript_id, user) ==
    /\ UNCHANGED <<mvars, cvars, svars, kvars, ai_enhancements>>
    /\ IF CreateContentSummaryResponse(transcript_id, user) # "200"
       THEN UNCHANGED <<content_summaries, ai_tasks, next_ai_task_id>>
       ELSE /\ next_ai_task_id <= MaxAiTasks
            /\ content_summaries' = Append(content_summaries,
                   [transcript_id |-> transcript_id, status |-> "processing",
                    created_by |-> "endpoint"])
            /\ ai_tasks' = ai_tasks \cup {NewAiTask("summarize", transcript_id)}
            /\ next_ai_task_id' = next_ai_task_id + 1

\* process_content_summary up to its await: the task inserts a record of its own
StartContentSummary(t) ==
    /\ t \in ai_tasks /\ t.kind = "summarize" /\ t.row = Null
    /\ UNCHANGED <<mvars, cvars, svars, kvars, ai_enhancements, next_ai_task_id>>
    /\ IF \/ t.target \notin 1..Len(transcripts)
          \/ transcripts[t.target].status # "completed"
       THEN /\ ai_tasks' = ai_tasks \ {t}
            /\ UNCHANGED content_summaries
       ELSE /\ content_summaries' = Append(content_summaries,
                   [transcript_id |-> t.target, status |-> "processing",
                    created_by |-> "task"])
            /\ ai_tasks' = (ai_tasks \ {t}) \cup
                   {[t EXCEPT !.row = Len(content_summaries) + 1]}

\* process_content_summary after _generate_summary has returned (ok) or raised
FinishContentSummary(t, ok) ==
    /\ t \in ai_tasks /\ t.kind = "summarize" /\ t.row # Null
    /\ ai_tasks' = ai_tasks \ {t}
    /\ content_summaries' =
           WithStatus(content_summaries, t.row, IF ok THEN "completed" ELSE "error")
    /\ usage_logs' =
           IF ok
           THEN Append(usage_logs,
                  [action |-> "summarize", resource_type |-> "content_summary",
                   resource_id |-> t.row, cost_credits |-> 1, task |-> t.id])
           ELSE usage_logs
    /\ UNCHANGED <<mvars, cvars, kvars, audio_files, files, transcripts, versions,
                   next_version_id, tasks, next_task_id, finished,
                   ai_enhancements, next_ai_task_id>>

(* ----------------------------- keyword search -------------------------- *)
\* text is a sequence of characters; the characters of the model: two
\* letters in both cases, the blank, and one of the punctuation marks
\* clean_word strips
Whitespace == {" "}
Punctuation == {"."}
LowerChar(c) == IF c = "Y" THEN "y" ELSE IF c = "K" THEN "k" ELSE c

\* str.lower()
Lower(text) == [i \in 1..Len(text) |-> LowerChar(text[i])]

\* str.strip(chars)
RECURSIVE Strip(_, _)
Strip(text, chars) ==
    IF text = <<>> THEN <<>>
    ELSE IF Head(text) \in chars THEN Strip(Tail(text), chars)
    ELSE IF text[Len(text)] \in chars THEN Strip(SubSeq(text, 1, Len(text) - 1), chars)
    ELSE text

\* str.split(): the runs of characters that are not whitespace
RECURSIVE SplitLoop(_, _, _)
SplitLoop(text, token, tokens) ==
    IF text = <<>>
    THEN IF token = <<>> THEN tokens ELSE Append(tokens, token)
    ELSE IF Head(text) \in Whitespace
    THEN SplitLoop(Tail(text), <<>>,
                   IF token = <<>> THEN tokens ELSE Append(tokens, token))
    ELSE SplitLoop(Tail(text), Append(token, Head(text)), tokens)
Split(text) == SplitLoop(text, <<>>, <<>>)

\* " ".join(tokens)
RECURSIVE Join(_)
Join(tokens) ==
    IF tokens = <<>> THEN <<>>
    ELSE IF Len(tokens) = 1 THEN tokens[1]
    ELSE tokens[1] \o <<" ">> \o Join(Tail(tokens))

\* `needle in text` of two strings
IsIn(needle, text) ==
    \E i \in 0..(Len(text) - Len(needle)) :
        SubSeq(text, i + 1, i + Len(needle)) = needle

\* word_info["word"].strip().lower() and then .strip(".,!?;:...").lower()
CleanWord(word) == Lower(Strip(Lower(Strip(word, Whitespace)), Punctuation))

\* `keyword_lower in clean_word or clean_word in keyword_lower`
WordMatches(keyword_lower, clean_word) ==
    IsIn(keyword_lower, clean_word) \/ IsIn(clean_word, keyword_lower)

\* the single word loop of search_keywords for one keyword, from word k on
RECURSIVE WordLoop(_, _, _, _)
WordLoop(words, keyword, k, found) ==
    IF k > Len(words) THEN found
    ELSE WordLoop(words, keyword, k + 1,
           IF WordMatches(Lower(keyword), CleanWord(words[k].word))
           THEN Append(found,
                  [keyword |-> keyword, type |-> "keyword_match",
                   start_time |-> words[k].start, end_time |-> words[k].end])
           ELSE found)

\* phrase_words of the run of n words that begins at word i (1-based)
PhraseWords(words, i, n) == [j \in 1..n |-> CleanWord(words[i + j - 1].word)]

\* the phrase loop of search_keywords for one keyword, from word i on
RECURSIVE PhraseLoop(_, _, _, _)
PhraseLoop(words, keyword, i, found) ==
    LET keyword_words == Split(Lower(keyword))
        n == Len(keyword_words)
    IN IF i > Len(words) - n + 1 THEN found
       ELSE PhraseLoop(words, keyword, i + 1,
              IF Join(PhraseWords(words, i, n)) = Lower(keyword)
              THEN Append(found,
                     [keyword |-> keyword, type |-> "phrase_match",
                      start_time |-> words[i].start,
                      end_time |-> words[i + n - 1].end])
              ELSE found)

\* search_keywords(transcript_data, keywords), from keyword k on
RECURSIVE SearchLoop(_, _, _, _)
SearchLoop(words, keywords, k, found) ==
    IF k > Len(keywords) THEN found
    ELSE LET keyword == keywords[k]
             single == WordLoop(words, keyword, 1, found)
         IN SearchLoop(words, keywords, k + 1,
               IF Len(Split(keyword)) > 1
               THEN PhraseLoop(words, keyword, 1, single)
               ELSE single)

SearchKeywords(words, keywords) == SearchLoop(words, keywords, 1, <<>>)

\* the words a transcript may hold and the keywords a client may send
WordTexts == {<<"y">>, <<"k">>, <<"Y", ".">>, <<"y", "k">>, <<".">>}
KeywordTexts == {<<"y", " ", "k">>, <<"Y", " ", "k">>, <<"k", " ", " ", "y">>, <<"y">>}

SearchInit ==
    /\ k_pc = "collect"
    /\ k_words = <<>>
    /\ k_keywords = <<>>
    /\ k_found = <<>>

\* one more word of the transcript: word i is spoken from i - 1 to i
AppendWord ==
    /\ k_pc = "collect"
    /\ Len(k_words) < MaxWords
    /\ \E text \in WordTexts :
          k_words' = Append(k_words,
              [word |-> text, start |-> Len(k_words), end |-> Len(k_words) + 1])
    /\ UNCHANGED <<k_pc, k_keywords, k_found, mvars, svars, cvars, avars>>

\* one more keyword of the request
AppendKeyword ==
    /\ k_pc = "collect"
    /\ Len(k_keywords) < MaxKeywords
    /\ \E text \in KeywordTexts : k_keywords' = Append(k_keywords, text)
    /\ UNCHANGED <<k_pc, k_words, k_found, mvars, svars, cvars, avars>>

SearchCall ==
    /\ k_pc = "collect"
    /\ k_found' = SearchKeywords(k_words, k_keywords)
    /\ k_pc' = "done"
    /\ UNCHANGED <<k_words, k_keywords, mvars, svars, cvars, avars>>

(* ------------------------------ audio cutter --------------------------- *)
\* Time stamps are whole tenths of a second and a tenth of a second is a
\* whole number of samples, so int(start * sr) loses nothing.  ffmpeg and
\* ffprobe are taken to do what their command lines ask for.

\* anullsrc=duration=0.1
SilenceDuration == 1

\* the clip and the merged deletions of the scenario of the specification:
\* 2.0 s, (0.0, 0.3) and (1.0, 1.2)
Scenario ==
    [duration |-> 20,
     segments |-> <<[start_time |-> 0, end_time |-> 3],
                    [start_time |-> 10, end_time |-> 12]>>]

\* the elements of segments_to_remove (the cutter reads start_time and
\* end_time only) and the durations of the clips
CutSegment ==
    {seg \in [start_time : 0..MaxCutTime, end_time : 0..MaxCutTime] :
        seg.start_time < seg.end_time}
    \cup {Scenario.segments[i] : i \in 1..Len(Scenario.segments)}
ClipDurations == (1..MaxCutTime) \cup {Scenario.duration}

\* librosa.load(input_file, sr=None): the samples of the clip, numbered
Audio(duration) == [i \in 1..(duration * SampleRate) |-> i]

\* segments_to_remove.sort(key=lambda x: x["start_time"])
SortedSegments(segs) ==
    LET order == SortedIdx(segs, Len(segs))
    IN [i \in 1..Len(segs) |-> segs[order[i]]]

\* NextLastEnd without the max: the end of the segment just read
NextLastEndCurrent(last_end, end_time) == end_time

\* `last_end = max(last_end, end_time)` of cut_audio_segments
NextLastEnd(last_end, end_time) == Max(last_end, end_time)

\* the for loop of cut_audio_segments over the sorted segments
RECURSIVE KeepLoop(_, _, _, _)
KeepLoop(segs, k, last_end, keep_segments) ==
    IF k > Len(segs)
    THEN [keep_segments |-> keep_segments, last_end |-> last_end]
    ELSE KeepLoop(segs, k + 1, NextLastEnd(last_end, segs[k].end_time),
                  IF segs[k].start_time > last_end
                  THEN Append(keep_segments, <<last_end, segs[k].start_time>>)
                  ELSE keep_segments)

\* keep_segments of cut_audio_segments, the tail (last_end, audio_duration)
\* included
KeepSegments(audio_duration, segs) ==
    LET r == KeepLoop(SortedSegments(segs), 1, 0, <<>>)
    IN IF r.last_end < audio_duration
       THEN Append(r.keep_segments, <<r.last_end, audio_duration>>)
       ELSE r.keep_segments

\* audio[start_sample:end_sample] of a numpy array, both indices >= 0
Slice(audio, start_sample, end_sample) ==
    SubSeq(audio, Min(start_sample, Len(audio)) + 1, Min(end_sample, Len(audio)))

RECURSIVE Concatenate(_, _)
Concatenate(arrays, n) ==
    IF n = 0 THEN <<>> ELSE Concatenate(arrays, n - 1) \o arrays[n]

\* NoKeepSegments that never holds: the empty list goes to np.concatenate
NoKeepSegmentsNever(keep_segments) == FALSE

\* `if not keep_segments`
NoKeepSegments(keep_segments) == keep_segments = <<>>

\* result_audio; np.concatenate raises ValueError on an empty list of arrays
ResultAudio(audio, keep_segments) ==
    IF NoKeepSegments(keep_segments)
    THEN [raised |-> FALSE, samples |-> <<>>]
    ELSE IF keep_segments = <<>>
    THEN [raised |-> TRUE, samples |-> <<>>]
    ELSE LET audio_segments ==
                 [i \in 1..Len(keep_segments) |->
                     Slice(audio, keep_segments[i][1] * SampleRate,
                                  keep_segments[i][2] * SampleRate)]
         IN [raised |-> FALSE,
             samples |-> Concatenate(audio_segments, Len(audio_segments))]

\* RemovedDuration with the operands exchanged
RemovedDurationSwapped(original_duration, new_duration) ==
    new_duration - original_duration

\* `removed_duration = original_duration - new_duration`
RemovedDuration(original_duration, new_duration) ==
    original_duration - new_duration

\* the file at output_file before the cut, after a write that did not
\* finish, and after a write that did
Absent == [state |-> "absent", samples |-> <<>>]
Partial == [state |-> "partial", samples |-> <<>>]
Written(samples) == [state |-> "complete", samples |-> samples]

NoReport ==
    [success |-> FALSE, original_duration |-> Null, new_duration |-> Null,
     removed_duration |-> Null, segments_removed |-> Null]

\* how a cut that raises ends: `except Exception` re-raises it as
\* FileProcessingException and touches no file
Raises(keep_segments, output) ==
    [raised |-> "FileProcessingException", keep |-> keep_segments,
     report |-> NoReport, output |-> output]

\* cut_audio_segments with the audio libraries available.  fault: "none",
\* "before_output" (librosa.load raises), "during_output" (sf.write raises
\* with the file partly written)
CutInMemory(duration, segs, fault) ==
    LET audio == Audio(duration)
        audio_duration == Len(audio) \div SampleRate
        keep_segments == KeepSegments(audio_duration, segs)
        result_audio == ResultAudio(audio, keep_segments)
        new_duration == Len(result_audio.samples) \div SampleRate
    IN IF fault = "before_output" THEN Raises(<<>>, Absent)
       ELSE IF result_audio.raised THEN Raises(keep_segments, Absent)
       ELSE IF fault = "during_output" THEN Raises(keep_segments, Partial)
       ELSE [raised |-> "", keep |-> keep_segments,
             report |-> [success |-> TRUE,
                         original_duration |-> audio_duration,
                         new_duration |-> new_duration,
                         removed_duration |->
                             RemovedDuration(audio_duration, new_duration),
                         segments_removed |-> Len(segs)],
             output |-> Written(result_audio.samples)]

\* the for loop of _cut_audio_with_ffmpeg: the atrim parts (start, end)
RECURSIVE FilterLoop(_, _, _, _)
FilterLoop(segs, k, last_end, filter_parts) ==
    IF k > Len(segs)
    THEN [filter_parts |-> filter_parts, last_end |-> last_end]
    ELSE FilterLoop(segs, k + 1, Max(last_end, segs[k].end_time),
                    IF segs[k].start_time > last_end
                    THEN Append(filter_parts, <<last_end, segs[k].start_time>>)
                    ELSE filter_parts)

\* filter_parts; the last part `atrim=start={last_end}` has no end and runs
\* to the end of the stream, which is original_duration
FilterParts(original_duration, segs) ==
    LET r == FilterLoop(SortedSegments(segs), 1, 0, <<>>)
    IN IF r.last_end < original_duration
       THEN Append(r.filter_parts, <<r.last_end, original_duration>>)
       ELSE r.filter_parts

\* Atrim that ignores start: the part begins at the start of the stream
AtrimFromZero(audio, start, end) == Slice(audio, 0, end * SampleRate)

\* the samples the filter atrim=start=..:end=.. lets through
Atrim(audio, start, end) == Slice(audio, start * SampleRate, end * SampleRate)

\* the ffmpeg run: with no filter parts 0.1 s of silence from anullsrc, else
\* the concat of the atrim parts
FfmpegOutput(audio, filter_parts) ==
    IF filter_parts = <<>>
    THEN [i \in 1..(SilenceDuration * SampleRate) |-> 0]
    ELSE LET parts == [i \in 1..Len(filter_parts) |->
                          Atrim(audio, filter_parts[i][1], filter_parts[i][2])]
         IN Concatenate(parts, Len(parts))

\* _cut_audio_with_ffmpeg.  fault: "none", "before_output" (ffprobe prints
\* no duration and float("") raises), "during_output" (ffmpeg exits
\* non-zero with the file partly written)
CutWithFfmpeg(duration, segs, fault) ==
    LET original_duration == duration
        filter_parts == FilterParts(original_duration, segs)
        samples == FfmpegOutput(Audio(duration), filter_parts)
        new_duration == Len(samples) \div SampleRate
    IN IF fault = "before_output" THEN Raises(<<>>, Absent)
       ELSE IF fault = "during_output" THEN Raises(filter_parts, Partial)
       ELSE [raised |-> "", keep |-> filter_parts,
             report |-> [success |-> TRUE,
                         original_duration |-> original_duration,
                         new_duration |-> new_duration,
                         removed_duration |-> original_duration - new_duration,
                         segments_removed |-> Len(segs)],
             output |-> Written(samples)]

Faults == {"none", "before_output", "during_output"}

CutInit ==
    /\ c_pc = "idle"
    /\ c_duration = 0
    /\ c_segments = <<>>
    /\ c_backend = ""
    /\ c_fault = "none"
    /\ c_keep = <<>>
    /\ c_report = NoReport
    /\ c_raised = ""
    /\ c_output = Absent

\* a clip is uploaded: input_file holds audio_duration tenths of a second
OpenClip(duration) ==
    /\ c_pc = "idle"
    /\ c_duration' = duration
    /\ c_pc' = "collect"
    /\ UNCHANGED <<c_segments, c_backend, c_fault, c_keep, c_report, c_raised,
                   c_output, mvars, svars, xvars>>

\* one more element of the segments_to_remove list of the call
AppendCutSegment ==
    /\ c_pc = "collect"
    /\ Len(c_segments) < MaxCutLen
    /\ \E seg \in CutSegment : c_segments' = Append(c_segments, seg)
    /\ UNCHANGED <<c_pc, c_duration, c_backend, c_fault, c_keep, c_report,
                   c_raised, c_output, mvars, svars, xvars>>

\* cut_audio_segments(input_file, segments_to_remove, output_file);
\* libs_available: AUDIO_LIBS_AVAILABLE
CutAudioSegments(libs_available, fault) ==
    /\ c_pc = "collect"
    /\ LET r == IF libs_available
                THEN CutInMemory(c_duration, c_segments, fault)
                ELSE CutWithFfmpeg(c_duration, c_segments, fault)
       IN /\ c_backend' = IF libs_available THEN "librosa" ELSE "ffmpeg"
          /\ c_fault' = fault
          /\ c_keep' = r.keep
          /\ c_report' = r.report
          /\ c_raised' = r.raised
          /\ c_output' = r.output
    /\ c_pc' = "done"
    /\ UNCHANGED <<c_duration, c_segments, mvars, svars, xvars>>

(* --------------------------- specifications ---------------------------- *)
Init == MergeInit /\ SysInit /\ CutInit /\ AiInit /\ SearchInit

Next ==
    \/ \E a \in Assets, user \in Users : CreateTranscript(a, user)
    \/ \E t \in tasks, ok \in BOOLEAN : ProcessTranscription(t, ok)
    \/ \E a \in Assets, n \in ClientNames \cup {None} : EditAudio(a, n)
    \/ \E t \in tasks, o \in {"ok", "fail_early", "fail_write"}, d \in NewDurations :
          ProcessAudioEditing(t, o, d)
    \/ \E a \in Assets, n \in ClientNames : CreateVersionFromOriginal(a, n)
    \/ \E i \in 1..MaxVersionRows, n \in ClientNames : CreateBranchFromVersion(i, n)
    \/ \E i \in 1..MaxVersionRows : DeleteVersion(i)
    \/ CleanupOldVersions

Spec == Init /\ [][Next]_vars

MergeNext == AppendSegment \/ MergeCall \/ MergeAgain

SpecMerge == Init /\ [][MergeNext]_vars

CutNext ==
    \/ \E duration \in ClipDurations : OpenClip(duration)
    \/ AppendCutSegment
    \/ \E libs_available \in BOOLEAN, fault \in Faults :
          CutAudioSegments(libs_available, fault)

SpecCut == Init /\ [][CutNext]_vars

\* the version store with the deletion of the project
ProjectNext == Next \/ DeleteProject

SpecProject == Init /\ [][ProjectNext]_vars

SearchNext == AppendWord \/ AppendKeyword \/ SearchCall

SpecSearch == Init /\ [][SearchNext]_vars

\* the enhance and summarize endpoints with their background tasks, and the
\* transcription a summary needs
AiNext ==
    \/ \E a \in Assets, user \in Users : CreateTranscript(a, user)
    \/ \E t \in tasks, ok \in BOOLEAN : ProcessTranscription(t, ok)
    \/ \E a \in Assets, user \in Users : EnhanceAudio(a, user)
    \/ \E t \in ai_tasks : StartAiEnhancement(t)
    \/ \E t \in ai_tasks, ok \in BOOLEAN : FinishAiEnhancement(t, ok)
    \/ \E i \in 1..MaxTasks, user \in Users : CreateContentSummary(i, user)
    \/ \E t \in ai_tasks : StartContentSummary(t)
    \/ \E t \in ai_tasks, ok \in BOOLEAN : FinishContentSummary(t, ok)

SpecAi == Init /\ [][AiNext]_vars

\* every background task FastAPI has been handed is run: after the response
\* the event loop runs it, and resumes it when what it awaits is done
AiTasksRun ==
    /\ WF_vars(\E t \in tasks, ok \in BOOLEAN : ProcessTranscription(t, ok))
    /\ WF_vars(\E t \in ai_tasks : StartAiEnhancement(t))
    /\ WF_vars(\E t \in ai_tasks, ok \in BOOLEAN : FinishAiEnhancement(t, ok))
    /\ WF_vars(\E t \in ai_tasks : StartContentSummary(t))
    /\ WF_vars(\E t \in ai_tasks, ok \in BOOLEAN : FinishContentSummary(t, ok))

SpecAiLive == SpecAi /\ AiTasksRun

(* ------------------------- claims on the merger ------------------------ *)
\* the unit cells [t, t+1) of the time axis covered by a list of half-open
\* intervals [start_time, end_time)
Covered(segs) ==
    {t \in 0..(MaxTime - 1) :
        \E i \in 1..Len(segs) : segs[i].start_time <= t /\ t < segs[i].end_time}

RECURSIVE TotalLength(_, _)
TotalLength(segs, n) ==
    IF n = 0 THEN 0
    ELSE TotalLength(segs, n - 1) + (segs[n].end_time - segs[n].start_time)

\* two half-open intervals of the list share a time point
SomeOverlap(segs) ==
    \E i, j \in 1..Len(segs) :
        /\ i < j
        /\ Max(segs[i].start_time, segs[j].start_time)
             < Min(segs[i].end_time, segs[j].end_time)

\* C7: the merger's output is ascending by start and each output interval
\* starts strictly after the previous output interval ends
C7_SortedDisjoint ==
    m_pc # "collect" =>
        \A i \in 1..(Len(m_merged) - 1) :
            /\ m_merged[i].start_time <= m_merged[i + 1].start_time
            /\ m_merged[i + 1].start_time > m_merged[i].end_time

\* C7 witness: touching inputs (one ends where the next starts) were merged
\* into one interval and a separate later interval was kept apart
C7_Witness ==
    /\ m_pc = "merged"
    /\ Len(m_input) = 3
    /\ Len(m_merged) = 2
    /\ \E i, j \in 1..3 : /\ m_input[i].end_time = m_input[j].start_time
                          /\ m_input[i].start_time < m_input[i].end_time
                          /\ m_input[j].start_time < m_input[j].end_time
    /\ m_merged[1].end_time - m_merged[1].start_time = 2

\* the start and end of every interval of a list, in order
Spans(segs) == [i \in 1..Len(segs) |-> <<segs[i].start_time, segs[i].end_time>>]

\* C8: the time covered by the merger's output is exactly the time covered
\* by its input intervals; (0.0,1.0) and (0.5,2.0) give the one interval
\* (0.0,2.0)
C8_SameCoverage ==
    m_pc # "collect" =>
        /\ Covered(m_merged) = Covered(m_input)
        /\ Spans(m_input) = <<(<<0, 2>>), (<<1, 4>>)>> => Spans(m_merged) = <<(<<0, 4>>)>>

\* C8 witness: the inputs (0.0,1.0) and (0.5,2.0) were merged
C8_Witness ==
    /\ m_pc = "merged"
    /\ Spans(m_input) = <<(<<0, 2>>), (<<1, 4>>)>>
    /\ Len(m_merged) = 1

\* C9: the total length of the output is at most the sum of the input
\* lengths, with equality exactly when no two inputs overlap
C9_LengthBound ==
    m_pc # "collect" =>
        /\ TotalLength(m_merged, Len(m_merged)) <= TotalLength(m_input, Len(m_input))
        /\ (TotalLength(m_merged, Len(m_merged)) = TotalLength(m_input, Len(m_input)))
              <=> ~SomeOverlap(m_input)

\* C9 witness: overlapping inputs, output strictly shorter than their sum
C9_Witness ==
    /\ m_pc = "merged"
    /\ SomeOverlap(m_input)
    /\ TotalLength(m_merged, Len(m_merged)) < TotalLength(m_input, Len(m_input))

\* C10: merging the merger's own output returns the same list (start, end
\* and reason of every interval)
C10_Idempotent ==
    m_pc = "again" => m_again = m_merged

\* C10 witness: the first call did merge something, and the second call ran
C10_Witness ==
    /\ m_pc = "again"
    /\ Len(m_merged) = 2
    /\ Len(m_input) = 3

\* the orderings of a list of n elements, and the list taken in one of them
Orderings(n) == {p \in [1..n -> 1..n] : \A i, j \in 1..n : p[i] = p[j] => i = j}
Reordered(segs, p) == [i \in 1..Len(segs) |-> segs[p[i]]]

\* C11: whatever the order in which the same intervals are handed to the
\* merger, it returns the same list: start, end and reason of every interval
C11_OrderIndependent ==
    m_pc = "merged" =>
        \A p \in Orderings(Len(m_input)) :
            MergeOverlappingSegments(Reordered(m_input, p)) = m_merged

(* ------------------------- claims on the cutter ------------------------ *)
\* the tenths of a second of a clip of the given duration that lie in some
\* deletion interval [start_time, end_time)
Deleted(duration, segs) ==
    {t \in 0..(duration - 1) :
        \E i \in 1..Len(segs) : segs[i].start_time <= t /\ t < segs[i].end_time}

Returned == c_pc = "done" /\ c_raised = ""

\* C12: every cut that returns reports removed_duration + new_duration =
\* original_duration, whichever backend ran
C12_DurationsAddUp ==
    Returned =>
        c_report.removed_duration + c_report.new_duration
            = c_report.original_duration

\* C12 witness: the in-memory backend returned from a cut that removed
\* something and kept something
C12_Witness ==
    /\ Returned
    /\ c_backend = "librosa"
    /\ c_report.removed_duration > 0
    /\ c_report.new_duration > 0

\* C13 as claimed: every cut that returns reports new_duration = D minus the
\* length deleted within [0, D] and removed_duration = that length
C13_NewDurationExact ==
    Returned =>
        /\ c_report.new_duration
             = c_duration - Cardinality(Deleted(c_duration, c_segments))
        /\ c_report.removed_duration
             = Cardinality(Deleted(c_duration, c_segments))

\* C13 amended: a cut that returns reports new_duration = D minus the length
\* deleted within [0, D] and removed_duration = that length, except that the
\* ffmpeg backend, when its keep list is empty, writes 0.1 s of silence and
\* reports new_duration = 0.1 s and removed_duration = D - 0.1 s; zero
\* deletions give new_duration = D, and deleting (0.0,0.3) and (1.0,1.2)
\* from a 2.0 s clip gives 1.5 s
C13_NewDuration ==
    Returned =>
        LET deleted == Cardinality(Deleted(c_duration, c_segments))
        IN /\ IF c_backend = "ffmpeg" /\ c_keep = <<>>
              THEN /\ c_report.new_duration = SilenceDuration
                   /\ c_report.removed_duration = c_duration - SilenceDuration
              ELSE /\ c_report.new_duration = c_duration - deleted
                   /\ c_report.removed_duration = deleted
           /\ c_segments = <<>> => c_report.new_duration = c_duration
           /\ (c_duration = Scenario.duration /\ c_segments = Scenario.segments)
                 => c_report.new_duration = 15

\* C13 witness: the cut of the scenario returned 1.5 s
C13_Witness ==
    /\ Returned
    /\ c_duration = Scenario.duration
    /\ c_segments = Scenario.segments
    /\ c_keep = <<(<<3, 10>>), (<<12, 20>>)>>
    /\ c_report.new_duration = 15

\* C14: when the deletions cover the whole clip, so that the keep list is
\* empty, and the call meets no I/O failure, the cut returns success and
\* output_file holds a completely written artifact of at most 0.1 s
C14_EmptyKeepSucceeds ==
    (/\ c_pc = "done"
     /\ c_fault = "none"
     /\ KeepSegments(c_duration, c_segments) = <<>>)
        => /\ Cardinality(Deleted(c_duration, c_segments)) = c_duration
           /\ c_raised = ""
           /\ c_report.success
           /\ c_output.state = "complete"
           /\ Len(c_output.samples) <= SilenceDuration * SampleRate

\* C14 witness: the in-memory backend cut a clip that two deletions cover
\* and wrote the empty artifact
C14_Witness ==
    /\ Returned
    /\ c_backend = "librosa"
    /\ Len(c_segments) = 2
    /\ c_keep = <<>>
    /\ c_output = Written(<<>>)

\* C15 as claimed: for the clip and the deletion list of a call, the two
\* backends derive the same keep list and report the same values
C15_BackendsEqual ==
    c_pc = "done" =>
        LET a == CutInMemory(c_duration, c_segments, "none")
            b == CutWithFfmpeg(c_duration, c_segments, "none")
        IN a.keep = b.keep /\ a.report = b.report

\* C15 amended: the two backends derive the same keep list and report the
\* same original_duration and segments_removed; they report the same
\* new_duration and removed_duration when the keep list is not empty; with
\* an empty keep list the in-memory backend reports new_duration 0 and the
\* ffmpeg backend 0.1 s
C15_BackendsEqualUnlessEmpty ==
    c_pc = "done" =>
        LET a == CutInMemory(c_duration, c_segments, "none")
            b == CutWithFfmpeg(c_duration, c_segments, "none")
        IN /\ a.keep = b.keep
           /\ a.report.success /\ b.report.success
           /\ a.report.original_duration = b.report.original_duration
           /\ a.report.segments_removed = b.report.segments_removed
           /\ IF a.keep # <<>>
              THEN /\ a.report.new_duration = b.report.new_duration
                   /\ a.report.removed_duration = b.report.removed_duration
                   /\ a.output = b.output
              ELSE /\ a.report.new_duration = 0
                   /\ b.report.new_duration = SilenceDuration

\* C15 witness: the ffmpeg backend returned from a cut that keeps two parts
\* of the clip, with the report the in-memory backend gives for that call
C15_Witness ==
    /\ Returned
    /\ c_backend = "ffmpeg"
    /\ Len(c_keep) = 2
    /\ c_keep[1][1] > 0
    /\ c_report = CutInMemory(c_duration, c_segments, "none").report

\* C16: when the call meets a failure, the cut raises the processing error
\* and no partly written file is left at output_file
C16_NoPartialOutput ==
    (c_pc = "done" /\ c_fault # "none") =>
        /\ c_raised = "FileProcessingException"
        /\ c_output.state # "partial"

\* the parts of C23, for a keep list of <<start, end>> pairs
KeepAscendingDisjoint(keep) ==
    \A i, j \in 1..Len(keep) : i < j => keep[i][2] <= keep[j][1]
KeepNonEmpty(keep) == \A i \in 1..Len(keep) : keep[i][1] < keep[i][2]
KeepInside(keep, duration) ==
    \A i \in 1..Len(keep) : 0 <= keep[i][1] /\ keep[i][2] <= duration
KeepAvoidsDeletions(keep, segs) ==
    \A i \in 1..Len(keep), k \in 1..Len(segs) :
        keep[i][2] <= segs[k].start_time \/ segs[k].end_time <= keep[i][1]
KeepCoversRest(keep, duration, segs) ==
    \A t \in 0..(duration - 1) :
        \/ t \in Deleted(duration, segs)
        \/ \E i \in 1..Len(keep) : keep[i][1] <= t /\ t < keep[i][2]

\* C23: the keep list a cut derives from its deletion list and the duration
\* D of the clip is the complement of the deletions within [0, D]: ascending,
\* pairwise disjoint, disjoint from every deletion, every interval non-empty
\* and inside [0, D], and with the deletions it covers [0, D].
C23_KeepIsComplement ==
    Returned =>
        /\ KeepAscendingDisjoint(c_keep)
        /\ KeepNonEmpty(c_keep)
        /\ KeepInside(c_keep, c_duration)
        /\ KeepAvoidsDeletions(c_keep, c_segments)
        /\ KeepCoversRest(c_keep, c_duration, c_segments)

(* --------------------- claims on the keyword search -------------------- *)
\* a match that spans the run of n words from word i on, whose cleaned,
\* lower-cased words joined by blanks are the lower-cased keyword
IsPhraseOf(match, words, i, n) ==
    /\ match.start_time = words[i].start
    /\ match.end_time = words[i + n - 1].end
    /\ Join(PhraseWords(words, i, n)) = Lower(match.keyword)

\* C24: every match search_keywords emits for a keyword of more than one
\* token spans a contiguous run of as many words as the keyword has tokens,
\* from the first word's start to the last word's end, whose cleaned,
\* lower-cased, space-joined text equals the lower-cased keyword; no single
\* word yields a match for such a keyword.
C24_PhraseMatchesOnly ==
    k_pc = "done" =>
        \A m \in 1..Len(k_found) :
            LET n == Len(Split(k_found[m].keyword))
            IN n > 1 =>
                 /\ k_found[m].type = "phrase_match"
                 /\ \E i \in 1..(Len(k_words) - n + 1) :
                        IsPhraseOf(k_found[m], k_words, i, n)

(* ---------------------- claims on the version store -------------------- *)
\* the lifecycle state of a Version row.  AudioVersion has neither a status
\* nor an error_message column: a row is "processing" as edit_audio inserts
\* it (no file, summary "Processing...") and "completed" once it has a file
RowStatus(v) ==
    IF v.file_path = "" /\ v.edit_summary = "Processing..."
    THEN "processing"
    ELSE "completed"

\* the usage_logs rows a background task emitted
EventsOf(task_id) == {i \in 1..Len(usage_logs) : usage_logs[i].task = task_id}

\* C1: no two Version rows of the same audio asset have the same version_name
C1_UniqueNames ==
    \A v, w \in versions :
        (v.audio_file_id = w.audio_file_id /\ v.version_name = w.version_name)
            => v.id = w.id

\* C2: of the requests that register one name on one asset exactly one wins:
\* a name is never held by two rows, and the file of a registered row is
\* never overwritten with the bytes of another request
C2_OneWinnerNoOverwrite ==
    \A v \in versions :
        /\ Cardinality(ExistingVersion(v.audio_file_id, v.version_name)) = 1
        /\ v.file_path \in DOMAIN files => files[v.file_path].data = v.wrote

\* C3: once the background task of an edit request has run, the row that
\* edit_audio created for the request is in a terminal state (completed, or
\* error with a message)
C3_AcceptedRowSettles ==
    \A f \in finished :
        f.kind = "edit" =>
            \A v \in versions :
                v.id = f.row => RowStatus(v) \in {"completed", "error"}

\* C4: when the pipeline of a unit of work fails, the record is in the error
\* state with the message, exactly one zero-cost usage event was emitted for
\* it, and the worker did not let the exception out
C4_FailureRecorded ==
    \A f \in finished :
        f.pipeline = "failed" =>
            /\ f.result = "returned"
            /\ Cardinality({i \in EventsOf(f.task) : usage_logs[i].cost_credits = 0}) = 1
            /\ f.kind = "transcribe" =>
                  /\ transcripts[f.transcript_id].status = "error"
                  /\ transcripts[f.transcript_id].error_message # ""
            /\ f.kind = "edit" =>
                  \A v \in versions : v.id = f.row => RowStatus(v) = "error"

\* C5: when the pipeline of a unit of work succeeds, the record is completed
\* with its result metadata and exactly one usage event exists for the unit
C5_SuccessRecorded ==
    \A f \in finished :
        f.pipeline = "ok" =>
            /\ Cardinality(EventsOf(f.task)) = 1
            /\ f.kind = "transcribe" =>
                  /\ transcripts[f.transcript_id].status = "completed"
                  /\ transcripts[f.transcript_id].content # ""
            /\ f.kind = "edit" =>
                  \A v \in versions :
                      v.id = f.row => /\ RowStatus(v) = "completed"
                                      /\ v.duration_seconds # Null

\* C6: every visible Version row refers to a completely written file
C6_VisibleRowsHaveFiles ==
    \A v \in versions :
        /\ v.file_path \in DOMAIN files
        /\ files[v.file_path].complete

\* the rows among `rows` that hold a name on an asset
Holders(rows, a, name) ==
    {v \in rows : v.audio_file_id = a /\ v.version_name = name}

\* C17: a request to create a Version (copy of the original, or edit) under a
\* name that a row of the same asset holds is answered with the collision
\* error and changes no row, no file and no task; a name that no row of the
\* asset holds is accepted, whatever rows other assets have
C17_CollisionRejected ==
    /\ [](\A a \in audio_files, n \in ClientNames :
            IF Holders(versions, a, n) # {}
            THEN /\ CreateVersionResponse(a, n) = "VERSION_EXISTS"
                 /\ TranscriptsOf(a, {"completed"}) # {}
                       => EditAudioResponse(a, n) = "409"
            ELSE /\ CreateVersionResponse(a, n) = "created"
                 /\ TranscriptsOf(a, {"completed"}) # {}
                       => EditAudioResponse(a, n) = "200")
    /\ [][\A a \in audio_files, n \in ClientNames :
            (/\ Holders(versions, a, n) # {}
             /\ CreateVersionFromOriginal(a, n) \/ EditAudio(a, n))
                => UNCHANGED <<versions, files, tasks>>]_vars

\* C17 witness: one name is held on both assets, each row with the file its
\* request wrote, and a further request for the name is answered with the
\* collision error
C17_Witness ==
    \E v, w \in versions :
        /\ v.version_name = w.version_name
        /\ v.audio_file_id # w.audio_file_id
        /\ v.file_path \in DOMAIN files /\ files[v.file_path].data = v.wrote
        /\ w.file_path \in DOMAIN files /\ files[w.file_path].data = w.wrote
        /\ CreateVersionResponse(v.audio_file_id, v.version_name) = "VERSION_EXISTS"
        /\ TranscriptsOf(v.audio_file_id, {"completed"}) # {}
        /\ EditAudioResponse(v.audio_file_id, v.version_name) = "409"

\* C18: a branch request is answered with the collision error when the new
\* name is held on the source's asset, and otherwise creates a row on that
\* asset whose file, operation log and duration are the source's, leaving
\* the source row and its file as they were
C18_BranchCopiesOrCollides ==
    /\ [](\A source \in versions, n \in ClientNames :
            BranchResponse(source.id, n) =
                IF Holders(versions, source.audio_file_id, n) # {}
                THEN "VERSION_EXISTS"
                ELSE "created")
    /\ [][\A source \in versions, n \in ClientNames :
            (CreateBranchFromVersion(source.id, n) /\ versions' # versions)
                => /\ source \in versions'
                   /\ files'[source.file_path] = files[source.file_path]
                   /\ \E branch \in versions' \ versions :
                         /\ branch.audio_file_id = source.audio_file_id
                         /\ branch.version_name = n
                         /\ branch.edit_operations = source.edit_operations
                         /\ branch.duration_seconds = source.duration_seconds
                         /\ files'[branch.file_path] = files[source.file_path]]_vars

\* a column that is NULL counts as 0 in a difference
Known(x) == IF x = Null THEN 0 ELSE x

\* C19: for two rows a and b of one asset compare(a, b) answers with
\* duration_b - duration_a, size_b - size_a and opcount_b - opcount_a, each
\* the negation of what compare(b, a) answers; for rows of different assets
\* it answers with an error
C19_CompareNegation ==
    \A a, b \in versions :
        LET ab == CompareVersions(a.id, b.id)
            ba == CompareVersions(b.id, a.id)
            opcount(v) == IF v.edit_operations = EditOps THEN 1 ELSE 0
        IN IF a.audio_file_id = b.audio_file_id
           THEN /\ ab.error = ""
                /\ ab.duration_diff
                     = Known(b.duration_seconds) - Known(a.duration_seconds)
                /\ ab.size_diff
                     = Known(b.file_size_bytes) - Known(a.file_size_bytes)
                /\ ab.operations_diff = opcount(b) - opcount(a)
                /\ ab.duration_diff = 0 - ba.duration_diff
                /\ ab.size_diff = 0 - ba.size_diff
                /\ ab.operations_diff = 0 - ba.operations_diff
           ELSE /\ ab.error = "INVALID_COMPARISON"
                /\ ab.duration_diff = Null

\* C19 witness: two rows of one asset differ in duration, size and number of
\* operations, and a row of the other asset exists
C19_Witness ==
    \E a, b, c \in versions :
        /\ a.audio_file_id = b.audio_file_id
        /\ CompareVersions(a.id, b.id).duration_diff < 0
        /\ CompareVersions(a.id, b.id).size_diff < 0
        /\ CompareVersions(a.id, b.id).operations_diff > 0
        /\ CompareVersions(a.id, c.id).error = "INVALID_COMPARISON"

\* C20: deleting a row removes the row and its file and returns the size the
\* file had; afterwards no row of the asset holds the name, and every other
\* row and the file of every other row are as they were
C20_DeleteFrame ==
    [][\A d \in versions :
          DeleteVersion(d.id) =>
              /\ d \notin versions'
              /\ d.file_path \notin DOMAIN files'
              /\ DeleteVersionResponse(d.id).freed_space_bytes
                   = IF d.file_path = "" THEN 0 ELSE GetSize(files[d.file_path])
              /\ Holders(versions', d.audio_file_id, d.version_name) = {}
              /\ \A w \in versions \ {d} :
                    /\ w \in versions'
                    /\ w.file_path \in DOMAIN files =>
                          /\ w.file_path \in DOMAIN files'
                          /\ files'[w.file_path] = files[w.file_path]]_vars

(* ------------------ claims on quota and request validation -------------- *)
\* an account that has used up every budget it has
Exhausted(user) ==
    \A action \in {"transcribe", "ai_enhance", "ai_summary"} :
        ~CheckQuotaLimit(user, action, 1)

\* C21: a transcribe, edit, enhance or summarize request of an account whose
\* quota for that action is exceeded is rejected before processing starts:
\* it is never accepted, so it creates no record and schedules no task.
\* edit_audio asks for no quota at all: for an edit the account counts as
\* over quota when every budget it has is used up.
C21_QuotaRejects ==
    \A user \in Users :
        /\ ~CheckQuotaLimit(user, "transcribe", 1)
              => \A a \in Assets : CreateTranscriptResponse(a, user) # "200"
        /\ ~CheckQuotaLimit(user, "ai_enhance", 1)
              => \A a \in Assets : EnhanceAudioResponse(a, user) # "200"
        /\ ~CheckQuotaLimit(user, "ai_summary", 1)
              => \A i \in 1..MaxTasks : CreateContentSummaryResponse(i, user) # "200"
        /\ Exhausted(user)
              => \A a \in Assets, n \in ClientNames \cup {None} :
                     EditAudioResponse(a, n) # "200"

\* C22: an edit request with an interval of start >= end or an operation of
\* an unsupported type is rejected by edit_audio itself: it is never
\* answered 200, the answer with which the Version row is inserted and the
\* cut is scheduled.
C22_InvalidEditRejected ==
    \A a \in Assets, n \in ClientNames \cup {None}, operation \in EditOperations :
        (operation.start_time >= operation.end_time
            \/ operation.type \notin SupportedTypes)
        => EditRequestResponse(a, operation, n) # "200"

(* --------------------- claims on the original audio -------------------- *)
\* the file system and the audio_files rows agree on the original of a
OriginalIntact(a, fs, rows) ==
    /\ a \in rows
    /\ OriginalPath(a) \in DOMAIN fs
    /\ fs[OriginalPath(a)] = [data |-> OriginalPath(a), complete |-> TRUE]

\* C25: every edit task that got as far as the editing engine handed it the
\* original file of an audio file, never the file of a Version, and no step
\* of the version store (create from original, edit, branch, delete version,
\* cleanup of old versions) changes or removes an original file or an
\* AudioFile row.
C25_OriginalIsInputAndKept ==
    /\ [](\A f \in finished :
             f.kind = "edit" /\ f.pipeline # "none"
             => /\ f.input \in {OriginalPath(a) : a \in Assets}
                /\ \A v \in versions : v.file_path # f.input)
    /\ [][\A a \in Assets :
             OriginalIntact(a, files, audio_files)
             => OriginalIntact(a, files', audio_files')]_vars
    /\ [](\A a \in Assets : OriginalIntact(a, files, audio_files))

\* C25 witness: an edit went through for an audio file that has another
\* Version with a file of its own, after a Version row had been deleted, and
\* the original is as it was uploaded
C25_Witness ==
    \E f \in finished, v, w \in versions :
        /\ f.kind = "edit" /\ f.pipeline = "ok"
        /\ f.input = OriginalPath(v.audio_file_id)
        /\ v.wrote = "edit" \o ToString(f.task)
        /\ w.audio_file_id = v.audio_file_id /\ w.id < v.id /\ w.file_path # ""
        /\ Cardinality(versions) < next_version_id - 1
        /\ OriginalIntact(v.audio_file_id, files, audio_files)

(* ------------------------ claims on transcription ---------------------- *)
\* ids of the transcripts of audio file a in one of the given statuses
RowsInStatus(rows, a, wanted) ==
    {i \in 1..Len(rows) : rows[i].audio_file_id = a /\ rows[i].status \in wanted}

RowIn(rows, id, wanted) == id <= Len(rows) /\ rows[id].status \in wanted

\* C27: every AIEnhancement and every ContentSummary record that is in
\* status processing reaches status completed or error, given that every
\* background task handed to the server is run.
C27_RecordsSettle ==
    \A id \in 1..(2 * MaxAiTasks) :
        /\ RowIn(ai_enhancements, id, {"processing"})
              ~> RowIn(ai_enhancements, id, {"completed", "error"})
        /\ RowIn(content_summaries, id, {"processing"})
              ~> RowIn(content_summaries, id, {"completed", "error"})

(* ------------------------ claims on version files ---------------------- *)
\* C28: no two distinct Version rows refer to the same non-empty file path,
\* and a delete_version step leaves the file of every Version row that
\* survives it in place and as it was.
C28_NoSharedPath ==
    /\ [](\A v, w \in versions :
             v.id # w.id /\ v.file_path # "" => v.file_path # w.file_path)
    /\ [][\A i \in 1..MaxVersionRows :
             DeleteVersion(i)
             => \A v \in versions' :
                   v.file_path \in DOMAIN files
                   => /\ v.file_path \in DOMAIN files'
                      /\ files'[v.file_path] = files[v.file_path]]_vars

\* C29: the name edit_audio generates for a request without version_name,
\* "v" and the number of Version rows of the audio file plus one, is the name
\* of no Version of that audio file, so such a request is never answered 409.
C29_DefaultNameIsFree ==
    \A a \in Assets :
        /\ ExistingVersion(a, DefaultName(Cardinality(VersionsOf(a)))) = {}
        /\ EditAudioResponse(a, None) # "409"

(* ---------------------- claims on project deletion --------------------- *)
\* C30: every Version row refers to an existing AudioFile; a delete_project
\* step leaves no Version row and no file of the audio files of the project;
\* and an edit task that runs for an audio file deleted with its project
\* registers no Version row and writes no file.
C30_ProjectDeletionIsComplete ==
    /\ [](\A v \in versions : v.audio_file_id \in audio_files)
    /\ [][DeleteProject => versions' = {} /\ DOMAIN files' = {}]_vars
    /\ [][\A t \in tasks, o \in {"ok", "fail_early", "fail_write"}, d \in NewDurations :
             ProcessAudioEditing(t, o, d) /\ t.audio_file_id \notin audio_files
             => versions' = versions /\ files' = files]_vars
====
